---------------------------- MODULE Spec2Model ----------------------------
(***************************************************************************)
(* A model of async-stream (src/src/lib.rs): a stream driven by an async   *)
(* block that hands items to the stream through a one-item Cell.           *)
(*                                                                         *)
(* The producer is the async block passed to AsyncStream::new or           *)
(* AsyncTryStream::new.  Its body is a straight-line program over three    *)
(* operations:                                                             *)
(*   "send"        let tok = sender.send(v);   (Sender::send)              *)
(*   "await_tok"   (&mut tok).await;           (SenderFuture::poll)        *)
(*   "await_other" some_other_future.await;    (an await of its own)       *)
(* followed by a return of (), Ok(()) or Err(e).  stream_send!(v) is       *)
(* "send" directly followed by "await_tok".  The k-th send of a body sends *)
(* the value k, so that a loss, a duplicate or a reordering shows.         *)
(*                                                                         *)
(* Option values are sequences of length at most one: <<>> is None and     *)
(* <<v>> is Some(v).                                                       *)
(***************************************************************************)
EXTENDS Naturals, Sequences, FiniteSets

\* Longest producer body, in operations.
MaxLen == 5
\* Most calls of poll_next / poll on one stream.
MaxCalls == 5

Ops == {"send", "await_tok", "await_other"}
Errors == {"NotFound"}
Kinds == {"AsyncStream", "AsyncTryStream"}

VARIABLES
    kind,        \* which of the two stream types this is
    prog,        \* the body of the async block
    ret,         \* the value the body returns: "Unit", "Ok" or an error
    fut,         \* the field fut: "Some" or "None"
    item,        \* the field item, the shared Cell<Option<I>>
    gen,         \* the async block: Unresumed, Suspended, Returned, Panicked, Dropped
    pc,          \* the operation of prog the block is at
    hasTok,      \* the block holds a SenderFuture
    is_ready,    \* SenderFuture.is_ready of the token held
    tokLog,      \* what the polls of the token held returned, in order
    otherReady,  \* the operation awaited by "await_other" has completed
    registered,  \* that operation holds the waker of the task polling the stream
    woken,       \* the task polling the stream has been woken since its last call
    emitted,     \* the values passed to send, in order
    overwritten, \* the values send replaced in the Cell before they were read
    out,         \* what the calls of poll_next / poll returned, in order
    polls,       \* how many times the async block was polled
    dropped,     \* the stream was dropped
    cleanups,    \* how many times the block's held state was released
    thread,      \* a thread the block gave its Sender to: none, idle, setting, setting_raced
    taking       \* the stream is inside Cell::replace: no, yes, raced

vars == <<kind, prog, ret, fut, item, gen, pc, hasTok, is_ready, tokLog,
          otherReady, registered, woken, emitted, overwritten, out, polls,
          dropped, cleanups, thread, taking>>

-----------------------------------------------------------------------------
(* Producer bodies *)

\* A body can only await a token that a send before it returned.
WellFormed(p) ==
    \A i \in 1..Len(p) :
        p[i] = "await_tok" => \E j \in 1..(i - 1) : p[j] = "send"

Programs ==
    { p \in UNION { [1..n -> Ops] : n \in 0..MaxLen } : WellFormed(p) }

Returns(k) == IF k = "AsyncStream" THEN {"Unit"} ELSE {"Ok"} \cup Errors

-----------------------------------------------------------------------------
(* SenderFuture and Sender *)

\* SenderFuture::new
SenderFutureNew == [is_ready |-> FALSE]

\* SenderFuture::poll without the Pending of the first poll.
SenderFuturePollEager(f) == [res |-> "Ready", is_ready |-> TRUE]

\* SenderFuture::poll without the assignment self.is_ready = true.
SenderFuturePollStuck(f) ==
    IF f.is_ready
    THEN [res |-> "Ready", is_ready |-> f.is_ready]
    ELSE [res |-> "Pending", is_ready |-> f.is_ready]

\* SenderFuture::poll: Pending once, Ready from then on.
SenderFuturePoll(f) ==
    IF f.is_ready
    THEN [res |-> "Ready", is_ready |-> f.is_ready]
    ELSE [res |-> "Pending", is_ready |-> TRUE]

\* Sender::new: the empty Cell.
SenderNew == << >>

\* A send that leaves an unread item in place.
SenderSendKeepOld(cell, v) == IF cell = << >> THEN <<v>> ELSE cell

\* Cell::set(Some(item.into())) in Sender::send: the new content of the Cell.
SenderSend(cell, v) == <<v>>

\* A read of the Cell that leaves the content in it.
CellReplaceNoneKeep(cell) == [old |-> cell, cell |-> cell]

\* Cell::replace(None): the old content is returned, the Cell is left empty.
CellReplaceNone(cell) == [old |-> cell, cell |-> << >>]

-----------------------------------------------------------------------------
(* The async block *)

\* The producer side of the state, as one record.
Producer ==
    [pc |-> pc, item |-> item, hasTok |-> hasTok, is_ready |-> is_ready,
     tokLog |-> tokLog, otherReady |-> otherReady, registered |-> registered,
     emitted |-> emitted, overwritten |-> overwritten, gen |-> gen,
     cleanups |-> cleanups, res |-> "None"]

\* sender.send(v): the Cell is set and a new SenderFuture is returned; the
\* token held before, if any, is dropped.
DoSend(s) ==
    LET v == Len(s.emitted) + 1
    IN  [s EXCEPT !.item = SenderSend(s.item, v),
                  !.overwritten = @ \cup { s.item[i] : i \in 1..Len(s.item) },
                  !.emitted = Append(@, v),
                  !.hasTok = TRUE,
                  !.is_ready = SenderFutureNew.is_ready,
                  !.tokLog = << >>,
                  !.pc = @ + 1]

\* One poll of the async block that has not finished: it runs from where it
\* is to its next await that returns Pending, or to its return.
RECURSIVE Resume(_, _)
Resume(p, s) ==
    IF s.pc > Len(p)
    THEN [s EXCEPT !.gen = "Returned", !.cleanups = @ + 1,
                   !.hasTok = FALSE, !.res = "Ready"]
    ELSE IF p[s.pc] = "send"
    THEN Resume(p, DoSend(s))
    ELSE IF p[s.pc] = "await_tok"
    THEN LET r == SenderFuturePoll([is_ready |-> s.is_ready])
             t == [s EXCEPT !.is_ready = r.is_ready,
                            !.tokLog = Append(@, r.res)]
         IN  IF r.res = "Ready"
             THEN Resume(p, [t EXCEPT !.pc = @ + 1])
             ELSE [t EXCEPT !.gen = "Suspended", !.res = "Pending"]
    ELSE \* "await_other": the operation keeps the waker when it is not done
         IF s.otherReady
         THEN Resume(p, [s EXCEPT !.pc = @ + 1, !.otherReady = FALSE,
                                  !.registered = FALSE])
         ELSE [s EXCEPT !.registered = TRUE, !.gen = "Suspended",
                        !.res = "Pending"]

\* fut.as_mut().poll(cx).  An async block that is polled after it returned
\* (or after it panicked) panics.
FutPoll(p, s) ==
    IF s.gen \in {"Returned", "Panicked"}
    THEN [s EXCEPT !.gen = "Panicked", !.res = "Panic"]
    ELSE Resume(p, s)

\* A drop that polls the block a last time before it releases it.
DropFutResume(p, s) ==
    IF s.gen \in {"Unresumed", "Suspended"}
    THEN LET r == Resume(p, s)
         IN  [r EXCEPT !.gen = "Dropped",
                       !.cleanups = IF r.gen = "Returned" THEN @ ELSE @ + 1,
                       !.hasTok = FALSE]
    ELSE s

\* The stream is dropped: the boxed block is dropped with it, and what the
\* block held at its suspension point is released.  Nothing is polled.
DropFut(p, s) ==
    IF s.gen \in {"Unresumed", "Suspended"}
    THEN [s EXCEPT !.gen = "Dropped", !.cleanups = @ + 1, !.hasTok = FALSE]
    ELSE s

-----------------------------------------------------------------------------
(* The results of poll_next and poll *)

Result(tag, v, e) == [tag |-> tag, v |-> v, e |-> e]
PanicResult == Result("panic", << >>, << >>)

\* A poll_next that reads the item and leaves it in the Cell.
StreamMatchPeek(pollres, cell) ==
    IF pollres = "Ready"
    THEN [out |-> Result("Ready(None)", << >>, << >>), cell |-> cell]
    ELSE IF cell = << >>
    THEN [out |-> Result("Pending", << >>, << >>), cell |-> cell]
    ELSE [out |-> Result("Ready(Some)", cell, << >>), cell |-> cell]

\* The match of AsyncStream::poll_next.
StreamMatch(pollres, cell) ==
    IF pollres = "Ready"
    THEN [out |-> Result("Ready(None)", << >>, << >>), cell |-> cell]
    ELSE LET taken == CellReplaceNone(cell)
         IN  IF taken.old = << >>
             THEN [out |-> Result("Pending", << >>, << >>), cell |-> taken.cell]
             ELSE [out |-> Result("Ready(Some)", taken.old, << >>),
                   cell |-> taken.cell]

\* A poll_next whose Err arm ends the stream without the error.
TryStreamMatchSwallow(pollres, r, cell) ==
    IF pollres = "Ready"
    THEN [out |-> Result("Ready(None)", << >>, << >>), cell |-> cell]
    ELSE LET taken == CellReplaceNone(cell)
         IN  IF taken.old = << >>
             THEN [out |-> Result("Pending", << >>, << >>), cell |-> taken.cell]
             ELSE [out |-> Result("Ready(Some(Ok))", taken.old, << >>),
                   cell |-> taken.cell]

\* The match of AsyncTryStream::poll_next.
TryStreamMatch(pollres, r, cell) ==
    IF pollres = "Ready" /\ r = "Ok"
    THEN [out |-> Result("Ready(None)", << >>, << >>), cell |-> cell]
    ELSE IF pollres = "Ready"
    THEN [out |-> Result("Ready(Some(Err))", << >>, <<r>>), cell |-> cell]
    ELSE LET taken == CellReplaceNone(cell)
         IN  IF taken.old = << >>
             THEN [out |-> Result("Pending", << >>, << >>), cell |-> taken.cell]
             ELSE [out |-> Result("Ready(Some(Ok))", taken.old, << >>),
                   cell |-> taken.cell]

\* A futures 0.1 poll that reads the item and leaves it in the Cell.
Poll01MatchPeek(pollres, r, cell) ==
    IF pollres = "Ready" /\ r = "Ok"
    THEN [out |-> Result("Ok(Ready(None))", << >>, << >>), cell |-> cell]
    ELSE IF pollres = "Ready"
    THEN [out |-> Result("Err", << >>, <<r>>), cell |-> cell]
    ELSE IF cell = << >>
    THEN [out |-> Result("Ok(NotReady)", << >>, << >>), cell |-> cell]
    ELSE [out |-> Result("Ok(Ready(Some))", cell, << >>), cell |-> cell]

\* The match of the futures 0.1 poll.
Poll01Match(pollres, r, cell) ==
    IF pollres = "Ready" /\ r = "Ok"
    THEN [out |-> Result("Ok(Ready(None))", << >>, << >>), cell |-> cell]
    ELSE IF pollres = "Ready"
    THEN [out |-> Result("Err", << >>, <<r>>), cell |-> cell]
    ELSE LET taken == CellReplaceNone(cell)
         IN  IF taken.old = << >>
             THEN [out |-> Result("Ok(NotReady)", << >>, << >>),
                   cell |-> taken.cell]
             ELSE [out |-> Result("Ok(Ready(Some))", taken.old, << >>),
                   cell |-> taken.cell]

-----------------------------------------------------------------------------
(* Construction *)

\* A constructor that polls the block once.
NewEager(k, p, r) ==
    Resume(p,
      [kind |-> k, prog |-> p, ret |-> r, fut |-> "Some", item |-> SenderNew,
       gen |-> "Unresumed", pc |-> 1, hasTok |-> FALSE, is_ready |-> FALSE,
       tokLog |-> << >>, otherReady |-> FALSE, registered |-> FALSE,
       emitted |-> << >>, overwritten |-> {}, cleanups |-> 0, res |-> "None"])

\* AsyncStream::new / AsyncTryStream::new: the closure is called with a clone
\* of the new Sender and the async block it returns is boxed, not polled.
New(k, p, r) ==
    [kind |-> k, prog |-> p, ret |-> r, fut |-> "Some", item |-> SenderNew,
     gen |-> "Unresumed", pc |-> 1, hasTok |-> FALSE, is_ready |-> FALSE,
     tokLog |-> << >>, otherReady |-> FALSE, registered |-> FALSE,
     emitted |-> << >>, overwritten |-> {}, cleanups |-> 0, res |-> "None"]

Init ==
    /\ \E k \in Kinds : \E p \in Programs : \E r \in Returns(k) :
          LET n == New(k, p, r)
          IN  /\ kind = n.kind /\ prog = n.prog /\ ret = n.ret
              /\ fut = n.fut /\ item = n.item /\ gen = n.gen /\ pc = n.pc
              /\ hasTok = n.hasTok /\ is_ready = n.is_ready
              /\ tokLog = n.tokLog /\ otherReady = n.otherReady
              /\ registered = n.registered /\ emitted = n.emitted
              /\ overwritten = n.overwritten /\ cleanups = n.cleanups
    /\ woken = FALSE
    /\ out = << >>
    /\ polls = 0
    /\ dropped = FALSE
    /\ thread = "none"
    /\ taking = "no"

-----------------------------------------------------------------------------
(* Actions *)

\* The producer side of the state becomes s.
SetProducer(s) ==
    /\ pc' = s.pc
    /\ hasTok' = s.hasTok
    /\ is_ready' = s.is_ready
    /\ tokLog' = s.tokLog
    /\ otherReady' = s.otherReady
    /\ registered' = s.registered
    /\ emitted' = s.emitted
    /\ overwritten' = s.overwritten
    /\ gen' = s.gen
    /\ cleanups' = s.cleanups

\* self.fut.as_mut().unwrap() on None: the call panics before it polls.
UnwrapPanics ==
    /\ out' = Append(out, PanicResult)
    /\ woken' = FALSE
    /\ UNCHANGED <<kind, prog, ret, fut, item, gen, pc, hasTok, is_ready,
                   tokLog, otherReady, registered, emitted, overwritten,
                   polls, dropped, cleanups, thread, taking>>

\* AsyncStream::poll_next
PollNext ==
    /\ kind = "AsyncStream"
    /\ ~dropped
    /\ Len(out) < MaxCalls
    /\ IF fut = "None"
       THEN UnwrapPanics
       ELSE LET s == FutPoll(prog, Producer)
                m == StreamMatch(s.res, s.item)
            IN  /\ SetProducer(s)
                /\ polls' = polls + 1
                /\ woken' = FALSE
                /\ IF s.res = "Panic"
                   THEN item' = s.item /\ out' = Append(out, PanicResult)
                   ELSE item' = m.cell /\ out' = Append(out, m.out)
                /\ UNCHANGED <<kind, prog, ret, fut, dropped, thread, taking>>

\* AsyncTryStream::poll_next
TryPollNext ==
    /\ kind = "AsyncTryStream"
    /\ ~dropped
    /\ Len(out) < MaxCalls
    /\ IF fut = "None"
       THEN UnwrapPanics
       ELSE LET s == FutPoll(prog, Producer)
                m == TryStreamMatch(s.res, ret, s.item)
            IN  /\ SetProducer(s)
                /\ polls' = polls + 1
                /\ woken' = FALSE
                /\ IF s.res = "Panic"
                   THEN item' = s.item /\ out' = Append(out, PanicResult)
                   ELSE item' = m.cell /\ out' = Append(out, m.out)
                /\ UNCHANGED <<kind, prog, ret, fut, dropped, thread, taking>>

\* A futures 0.1 poll without self.fut.replace(fut.into_inner()).
Poll01NoMoveBack ==
    /\ kind = "AsyncTryStream"
    /\ ~dropped
    /\ Len(out) < MaxCalls
    /\ IF fut = "None"
       THEN UnwrapPanics
       ELSE LET s == FutPoll(prog, Producer)
                m == Poll01Match(s.res, ret, s.item)
            IN  /\ SetProducer(s)
                /\ polls' = polls + 1
                /\ woken' = FALSE
                /\ fut' = "None"
                /\ IF s.res = "Panic"
                   THEN item' = s.item /\ out' = Append(out, PanicResult)
                   ELSE item' = m.cell /\ out' = Append(out, m.out)
                /\ UNCHANGED <<kind, prog, ret, dropped, thread, taking>>

\* stream01: Stream01::poll of an AsyncTryStream.  The block is moved out of
\* self.fut for the poll and moved back after it; a panic of the poll unwinds
\* past the move back.
Poll01 ==
    /\ kind = "AsyncTryStream"
    /\ ~dropped
    /\ Len(out) < MaxCalls
    /\ IF fut = "None"
       THEN UnwrapPanics
       ELSE LET s == FutPoll(prog, Producer)
                m == Poll01Match(s.res, ret, s.item)
            IN  /\ SetProducer(s)
                /\ polls' = polls + 1
                /\ woken' = FALSE
                /\ IF s.res = "Panic"
                   THEN /\ item' = s.item
                        /\ out' = Append(out, PanicResult)
                        /\ fut' = "None"
                   ELSE /\ item' = m.cell
                        /\ out' = Append(out, m.out)
                        /\ fut' = "Some"
                /\ UNCHANGED <<kind, prog, ret, dropped, thread, taking>>

\* The stream is dropped.
Drop ==
    /\ ~dropped
    /\ dropped' = TRUE
    /\ LET s == IF fut = "Some" THEN DropFut(prog, Producer) ELSE Producer
       IN  /\ SetProducer(s)
           /\ item' = s.item
    /\ UNCHANGED <<kind, prog, ret, fut, woken, out, polls, thread, taking>>

\* The operation the block is awaiting in "await_other" completes, and wakes
\* the task whose waker it holds.
CompleteOther ==
    /\ ~dropped
    /\ gen \in {"Unresumed", "Suspended"}
    /\ pc <= Len(prog)
    /\ prog[pc] = "await_other"
    /\ ~otherReady
    /\ otherReady' = TRUE
    /\ woken' = (woken \/ registered)
    /\ UNCHANGED <<kind, prog, ret, fut, item, gen, pc, hasTok, is_ready,
                   tokLog, registered, emitted, overwritten, out, polls,
                   dropped, cleanups, thread, taking>>

Next ==
    \/ PollNext
    \/ TryPollNext
    \/ Poll01
    \/ Drop
    \/ CompleteOther

Spec == Init /\ [][Next]_vars

TypeOK ==
    /\ kind \in Kinds
    /\ prog \in Programs
    /\ ret \in Returns(kind)
    /\ fut \in {"Some", "None"}
    /\ Len(item) <= 1
    /\ gen \in {"Unresumed", "Suspended", "Returned", "Panicked", "Dropped"}
    /\ pc \in 1..(Len(prog) + 1)
    /\ hasTok \in BOOLEAN /\ is_ready \in BOOLEAN
    /\ otherReady \in BOOLEAN /\ registered \in BOOLEAN /\ woken \in BOOLEAN
    /\ polls \in 0..MaxCalls
    /\ Len(out) <= MaxCalls
    /\ dropped \in BOOLEAN
    /\ cleanups \in 0..1
    /\ thread \in {"none", "idle", "setting", "setting_raced"}
    /\ taking \in {"no", "yes", "raced"}

-----------------------------------------------------------------------------
(* Reading the results *)

IsItem(r) == r.tag \in {"Ready(Some)", "Ready(Some(Ok))", "Ok(Ready(Some))"}
IsEnd(r) == r.tag \in {"Ready(None)", "Ok(Ready(None))"}
IsError(r) == r.tag \in {"Ready(Some(Err))", "Err"}
IsNoItem(r) == r.tag \in {"Pending", "Ok(NotReady)"}
IsPanic(r) == r.tag = "panic"
IsTerminal(r) == IsEnd(r) \/ IsError(r)

\* The values of the items among the results o, in order.
ItemsOf(o) ==
    LET sel == SelectSeq(o, IsItem)
    IN  [i \in 1..Len(sel) |-> sel[i].v[1]]

Prefix(o, n) == SubSeq(o, 1, n)
ValuesOf(q) == { q[i] : i \in 1..Len(q) }
Some(o, P(_)) == \E i \in 1..Len(o) : P(o[i])

NumSends(p) == Cardinality({ i \in 1..Len(p) : p[i] = "send" })
HasOther(p) == \E i \in 1..Len(p) : p[i] = "await_other"

\* Every send is directly followed by the await of its token: sender.send(v).await
Conforming(p) ==
    \A i \in 1..Len(p) :
        p[i] = "send" => (i < Len(p) /\ p[i + 1] = "await_tok")

-----------------------------------------------------------------------------
(* Claims *)

\* C1: for a body that sends N values, awaiting each token right after the
\* send, and returns, AsyncStream::poll_next reports the values 1..N in order,
\* each once, one per call, and Ready(None) only after all N; a body without
\* awaits of its own gives exactly item 1, ..., item N, Ready(None), and the
\* empty body gives Ready(None) on the first call.
C1_ItemsInOrderThenEnd ==
    (kind = "AsyncStream" /\ Conforming(prog)) =>
        LET n == NumSends(prog)
            its == ItemsOf(out)
        IN  /\ Len(its) <= n
            /\ \A i \in 1..Len(its) : its[i] = i
            /\ \A i \in 1..Len(out) :
                  /\ ~IsError(out[i])
                  /\ IsEnd(out[i]) => Len(ItemsOf(Prefix(out, i - 1))) = n
                  /\ IsPanic(out[i]) => Some(Prefix(out, i - 1), IsEnd)
                  /\ IsNoItem(out[i]) => HasOther(prog)
            /\ ~HasOther(prog) =>
                  \A i \in 1..Len(out) :
                      /\ i <= n => out[i] = Result("Ready(Some)", <<i>>, << >>)
                      /\ i = n + 1 => out[i] = Result("Ready(None)", << >>, << >>)

C1_Witness ==
    /\ kind = "AsyncStream"
    /\ prog = <<"send", "await_tok", "send", "await_tok">>
    /\ out = << Result("Ready(Some)", <<1>>, << >>),
                Result("Ready(Some)", <<2>>, << >>),
                Result("Ready(None)", << >>, << >>) >>

\* C2: for a body that sends k values, awaiting each token right after the
\* send, an AsyncTryStream reports the k items in order and then, if the body
\* returned Err(e), one error e with no item and no error after it; if the
\* body returned Ok, Ready(None) and never an error.  No error comes before
\* the k-th item.
C2_ItemsThenError ==
    (kind = "AsyncTryStream" /\ Conforming(prog)) =>
        LET n == NumSends(prog)
            its == ItemsOf(out)
        IN  /\ Len(its) <= n
            /\ \A i \in 1..Len(its) : its[i] = i
            /\ \A i \in 1..Len(out) :
                  /\ IsError(out[i]) =>
                        /\ ret \in Errors
                        /\ out[i].e = <<ret>>
                        /\ Len(ItemsOf(Prefix(out, i - 1))) = n
                        /\ \A j \in (i + 1)..Len(out) :
                              ~IsItem(out[j]) /\ ~IsError(out[j])
                  /\ IsEnd(out[i]) =>
                        /\ ret = "Ok"
                        /\ Len(ItemsOf(Prefix(out, i - 1))) = n
            /\ ~HasOther(prog) =>
                  \A i \in 1..Len(out) :
                      /\ i <= n => (IsItem(out[i]) /\ out[i].v = <<i>>)
                      /\ i = n + 1 =>
                            IF ret = "Ok" THEN IsEnd(out[i]) ELSE IsError(out[i])

C2_Witness ==
    /\ kind = "AsyncTryStream"
    /\ ret = "NotFound"
    /\ prog = <<"send", "await_tok">>
    /\ out = << Result("Ready(Some(Ok))", <<1>>, << >>),
                Result("Ready(Some(Err))", << >>, <<"NotFound">>) >>

\* C3: once poll_next has returned Ready(None), every later call returns
\* Ready(None) again and does not poll the async block.
C3_ExhaustedIsIdempotent ==
    [][ (kind = "AsyncStream" /\ Some(out, IsEnd)) =>
            /\ polls' = polls
            /\ \/ out' = out
               \/ /\ Len(out') = Len(out) + 1
                  /\ IsEnd(out'[Len(out')]) ]_vars

\* C4: once an AsyncTryStream has reported the error e, no later call
\* reports an item or another error, and none polls the async block.
C4_ErrorIsTerminal ==
    [][ (kind = "AsyncTryStream" /\ Some(out, IsError)) =>
            /\ polls' = polls
            /\ \/ out' = out
               \/ /\ Len(out') = Len(out) + 1
                  /\ ~IsItem(out'[Len(out')])
                  /\ IsError(out'[Len(out')]) => out'[Len(out')].e = <<ret>> ]_vars

\* C5: the drop of the stream releases what the async block holds at most
\* once and polls nothing: from the drop on no send happens and no result is
\* reported, and a body that awaits each token right after its send has sent
\* exactly the j items the consumer received.
C5_DropCancels ==
    [][ dropped' =>
            /\ cleanups' <= 1
            /\ polls' = polls
            /\ emitted' = emitted
            /\ out' = out
            /\ item' = item
            /\ gen' \notin {"Unresumed", "Suspended"}
            /\ Conforming(prog) => Len(emitted') = Len(ItemsOf(out')) ]_vars

C5_Witness ==
    /\ dropped
    /\ Conforming(prog)
    /\ NumSends(prog) = 2
    /\ ItemsOf(out) = <<1>>
    /\ emitted = <<1>>
    /\ gen = "Dropped"
    /\ cleanups = 1

C8_NoSilentLoss ==
    (\A i \in 1..Len(out) : ~IsPanic(out[i])) =>
        \A v \in ValuesOf(emitted) :
            \/ v \in ValuesOf(ItemsOf(out))
            \/ v \in ValuesOf(item) /\ ~Some(out, IsTerminal)

\* C8 as amended: a value passed to send is reported by exactly one call,
\* unless a later send replaced it in the Cell before it was read or it is
\* still in the Cell; the reported values are in the order of the sends; and
\* no panic and no error comes of a lost value: a panic only follows the end
\* of the stream, an error is only the Err the body returned.
C8_LossOnlyByOverwriteOrLeftover ==
    LET its == ItemsOf(out)
        reported == ValuesOf(its)
        inCell == ValuesOf(item)
    IN  /\ \A i, j \in 1..Len(its) : i < j => its[i] < its[j]
        /\ ValuesOf(emitted) = reported \cup overwritten \cup inCell
        /\ reported \cap overwritten = {}
        /\ reported \cap inCell = {}
        /\ overwritten \cap inCell = {}
        /\ \A i \in 1..Len(out) :
              /\ IsPanic(out[i]) => Some(Prefix(out, i - 1), IsTerminal)
              /\ IsError(out[i]) => out[i].e = <<ret>>

C8_Witness ==
    /\ prog = <<"send", "send", "await_tok">>
    /\ kind = "AsyncStream"
    /\ overwritten = {1}
    /\ out = << Result("Ready(Some)", <<2>>, << >>),
                Result("Ready(None)", << >>, << >>) >>

\* C9: a SenderFuture starts with is_ready false; its first poll returns
\* Pending and sets is_ready; every later poll returns Ready and is_ready
\* stays set.
C9_TokenPendingOnceThenReady ==
    /\ hasTok => (is_ready <=> tokLog # << >>)
    /\ \A i \in 1..Len(tokLog) :
          tokLog[i] = IF i = 1 THEN "Pending" ELSE "Ready"

C9_Witness ==
    /\ hasTok
    /\ is_ready
    /\ tokLog = <<"Pending", "Ready", "Ready">>

ScenarioD == <<"send", "await_tok", "await_other">>

\* C10: a body that sends one value, awaits the token and then awaits an
\* operation of its own: the first call reports the value; each later call
\* that finds the operation not completed reports Pending (NotReady) with the
\* Cell empty, never the value again; the first call after the operation
\* completed reports the end of the stream.
C10_ScenarioD ==
    [][ (/\ prog = ScenarioD
         /\ ret \in {"Unit", "Ok"}
         /\ out' # out
         /\ ~Some(out, IsEnd)) =>
            LET last == out'[Len(out')]
            IN  /\ item' = << >>
                /\ Len(ItemsOf(out')) <= 1
                /\ IF out = << >>
                   THEN IsItem(last) /\ last.v = <<1>>
                   ELSE IF otherReady
                   THEN IsEnd(last)
                   ELSE IsNoItem(last) ]_vars

C10_Witness ==
    /\ prog = ScenarioD
    /\ kind = "AsyncStream"
    /\ out = << Result("Ready(Some)", <<1>>, << >>),
                Result("Pending", << >>, << >>),
                Result("Ready(None)", << >>, << >>) >>

\* What a result says, whichever of the two interfaces returned it.
Signal(r) ==
    IF IsItem(r) THEN "item"
    ELSE IF IsNoItem(r) THEN "no item yet"
    ELSE IF IsEnd(r) THEN "end"
    ELSE IF IsError(r) THEN "error"
    ELSE "panic"

IsPoll01Result(r) ==
    r.tag \in {"Ok(Ready(Some))", "Ok(NotReady)", "Ok(Ready(None))", "Err"}

\* C11: a futures 0.1 poll that returns gives the outcome that
\* AsyncTryStream::poll_next would give from the same state (item with the
\* same value, not ready for Pending, the same error, done for the end), and
\* leaves the stream as poll_next would: the block polled once and back in
\* fut, the Cell as poll_next leaves it, nothing else changed.
C11_Poll01AsPollNext ==
    [][ (/\ kind = "AsyncTryStream"
         /\ out' # out
         /\ IsPoll01Result(out'[Len(out')])) =>
            LET s == FutPoll(prog, Producer)
                a == TryStreamMatch(s.res, ret, s.item)
                last == out'[Len(out')]
            IN  /\ s.res # "Panic"
                /\ Signal(last) = Signal(a.out)
                /\ last.v = a.out.v
                /\ last.e = a.out.e
                /\ item' = a.cell
                /\ fut = "Some" /\ fut' = "Some"
                /\ polls' = polls + 1
                /\ <<pc', gen', emitted', hasTok', is_ready', otherReady'>>
                      = <<s.pc, s.gen, s.emitted, s.hasTok, s.is_ready,
                          s.otherReady>> ]_vars

C11_Witness ==
    /\ kind = "AsyncTryStream"
    /\ Len(out) = 3
    /\ out[1] = Result("Ok(Ready(Some))", <<1>>, << >>)
    /\ out[2] = Result("Ok(NotReady)", << >>, << >>)
    /\ out[3] = Result("Err", << >>, <<"NotFound">>)

\* The body awaits the token of every send before it sends again or returns;
\* awaits of its own may come between the send and the await of the token.
AwaitsEachToken(p) ==
    \A i \in 1..Len(p) :
        p[i] = "send" =>
            \E j \in (i + 1)..Len(p) :
                /\ p[j] = "await_tok"
                /\ \A k \in (i + 1)..(j - 1) : p[k] # "send"

\* C12: for a body that awaits the token of every send before it sends again
\* or returns, no send replaces an unread item, the Cell is empty whenever a
\* call has returned, and every value sent was taken by the call during which
\* it was sent: at most one send happens per call.
C12_SlotInvariant ==
    AwaitsEachToken(prog) =>
        /\ overwritten = {}
        /\ item = << >>
        /\ Len(emitted) = Len(ItemsOf(out))
        /\ Len(emitted) <= polls

C12_Witness ==
    /\ AwaitsEachToken(prog)
    /\ ~Conforming(prog)
    /\ emitted = <<1, 2>>
    /\ ItemsOf(out) = <<1, 2>>
    /\ polls = 2

-----------------------------------------------------------------------------
(* The Sender on another thread *)

(***************************************************************************)
(* Sender is declared Send and Sync, so a body may move its Sender into a  *)
(* thread it spawns:                                                       *)
(*   |mut sender| async move {                                             *)
(*       std::thread::spawn(move || loop { let _tok = sender.send(v); });  *)
(*       .. awaits of its own ..                                           *)
(*   }                                                                     *)
(* Here Cell::set in Sender::send and Cell::replace in poll_next are the   *)
(* unsynchronised memory accesses that they are, each with a start and an  *)
(* end.  When the two overlap the accesses race, and what the Cell holds   *)
(* and what the replace returns is any of the outcomes.                    *)
(***************************************************************************)

\* Most sends of the spawned thread.
MaxThreadSends == 2

\* Bodies that spawn the thread first: without the Sender they only await.
ThreadPrograms ==
    { p \in Programs : \A i \in 1..Len(p) : p[i] = "await_other" }

InitT ==
    /\ Init
    /\ kind = "AsyncStream"
    /\ prog \in ThreadPrograms

\* AsyncStream::poll_next up to the start of self.item.0.replace(None).  The
\* first poll of the block spawns the thread.
PollBeginT ==
    /\ ~dropped
    /\ taking = "no"
    /\ Len(out) < MaxCalls
    /\ LET s == FutPoll(prog, Producer)
       IN  /\ SetProducer(s)
           /\ polls' = polls + 1
           /\ woken' = FALSE
           /\ item' = item
           /\ IF s.res = "Panic"
              THEN /\ out' = Append(out, PanicResult)
                   /\ UNCHANGED <<thread, taking>>
              ELSE IF s.res = "Ready"
              THEN /\ out' = Append(out, StreamMatch(s.res, item).out)
                   /\ thread' = IF thread = "none" THEN "idle" ELSE thread
                   /\ UNCHANGED taking
              ELSE /\ out' = out
                   /\ thread' = IF thread = "none" THEN "idle"
                                ELSE IF thread = "setting" THEN "setting_raced"
                                ELSE thread
                   /\ taking' = IF thread \in {"setting", "setting_raced"}
                                THEN "raced" ELSE "yes"
    /\ UNCHANGED <<kind, prog, ret, fut, dropped>>

\* The end of self.item.0.replace(None) and the rest of poll_next.
TakeEndT ==
    /\ taking # "no"
    /\ taking' = "no"
    /\ IF taking = "yes"
       THEN LET m == StreamMatch("Pending", item)
            IN  item' = m.cell /\ out' = Append(out, m.out)
       ELSE \E old \in {item, << >>, <<emitted[Len(emitted)]>>} :
            \E new \in {<< >>, <<emitted[Len(emitted)]>>} :
                /\ item' = new
                /\ out' = Append(out, StreamMatch("Pending", old).out)
    /\ UNCHANGED <<kind, prog, ret, fut, gen, pc, hasTok, is_ready, tokLog,
                   otherReady, registered, woken, emitted, overwritten, polls,
                   dropped, cleanups, thread>>

\* The thread calls sender.send(v): the start of Cell::set.
SetBeginT ==
    /\ thread = "idle"
    /\ Len(emitted) < MaxThreadSends
    /\ emitted' = Append(emitted, Len(emitted) + 1)
    /\ thread' = IF taking = "no" THEN "setting" ELSE "setting_raced"
    /\ taking' = IF taking = "no" THEN "no" ELSE "raced"
    /\ UNCHANGED <<kind, prog, ret, fut, item, gen, pc, hasTok, is_ready,
                   tokLog, otherReady, registered, woken, overwritten, out,
                   polls, dropped, cleanups>>

\* The end of Cell::set; the SenderFuture returned is dropped by the thread.
SetEndT ==
    /\ thread \in {"setting", "setting_raced"}
    /\ thread' = "idle"
    /\ IF thread = "setting"
       THEN /\ item' = SenderSend(item, emitted[Len(emitted)])
            /\ overwritten' = overwritten \cup ValuesOf(item)
       ELSE /\ item' \in {item, <<emitted[Len(emitted)]>>}
            /\ UNCHANGED overwritten
    /\ UNCHANGED <<kind, prog, ret, fut, gen, pc, hasTok, is_ready, tokLog,
                   otherReady, registered, woken, emitted, out, polls,
                   dropped, cleanups, taking>>

NextT ==
    \/ PollBeginT
    \/ TakeEndT
    \/ SetBeginT
    \/ SetEndT
    \/ CompleteOther

SpecThreads == InitT /\ [][NextT]_vars

\* C13: a Cell::set of Sender::send and the Cell::replace of poll_next never
\* overlap in time, also when the Sender was moved to another thread.
C13_NoOverlap ==
    ~(thread \in {"setting", "setting_raced"} /\ taking # "no")

-----------------------------------------------------------------------------

\* C14: when a call polls the block and the block returns Pending, the Cell
\* alone decides the result: a value in it is taken and reported as the item,
\* an empty Cell gives Pending (NotReady); either way the Cell is left empty
\* and the block stays in fut, suspended, for the next call.
C14_PendingArm ==
    [][ (/\ out' # out
         /\ fut = "Some"
         /\ FutPoll(prog, Producer).res = "Pending") =>
            LET s == FutPoll(prog, Producer)
                last == out'[Len(out')]
            IN  /\ IF s.item # << >>
                   THEN IsItem(last) /\ last.v = s.item
                   ELSE IsNoItem(last)
                /\ item' = << >>
                /\ fut' = "Some"
                /\ gen' = "Suspended"
                /\ pc' = s.pc ]_vars

C14_Witness ==
    /\ Len(out) >= 2
    /\ IsNoItem(out[Len(out)])
    /\ IsItem(out[Len(out) - 1])
    /\ gen = "Suspended"
    /\ fut = "Some"
    /\ item = << >>

\* C15: for a body that awaits the token of every send before it sends again
\* or returns, a call reports Pending (NotReady) only with the block
\* suspended in an await of its own, never in the await of a token.
C15_NoItemYetOnlyOffToken ==
    (/\ AwaitsEachToken(prog)
     /\ out # << >>
     /\ IsNoItem(out[Len(out)])) =>
        /\ item = << >>
        /\ pc <= Len(prog)
        /\ prog[pc] = "await_other"

\* C16: whenever a call has reported Pending (NotReady), a wake-up of the
\* polling task is on its way: an operation the block awaits holds the task's
\* waker, or the task has been woken since the call.
C16_WakeNotLost ==
    (/\ out # << >>
     /\ IsNoItem(out[Len(out)])
     /\ ~dropped) =>
        (registered \/ woken)

\* The values sent during the step.
SentInStep == SubSeq(emitted', Len(emitted) + 1, Len(emitted'))

\* C17: a send stores its value whatever the Cell holds: after the sends of
\* one poll the Cell holds the last value sent, every unread value before it
\* is discarded, and no panic comes of it.  The take of poll_next / poll
\* returns the value in the Cell if there is one and leaves the Cell empty,
\* so a take that follows a take with no send in between returns nothing.
C17_SlotOperations ==
    [][ (out' # out /\ fut = "Some") =>
            LET s == FutPoll(prog, Producer)
                sent == SentInStep
                last == out'[Len(out')]
            IN  /\ s.item = IF sent = << >> THEN item
                            ELSE <<sent[Len(sent)]>>
                /\ overwritten' =
                      overwritten \cup
                      (IF sent = << >> THEN {}
                       ELSE ValuesOf(item) \cup
                            { sent[i] : i \in 1..(Len(sent) - 1) })
                /\ IsPanic(last) <=> gen \in {"Returned", "Panicked"}
                /\ s.res = "Pending" =>
                      /\ item' = << >>
                      /\ IF s.item = << >>
                         THEN IsNoItem(last)
                         ELSE IsItem(last) /\ last.v = s.item
                      /\ (sent = << >> /\ item = << >>) => IsNoItem(last)
                /\ s.res = "Ready" => item' = s.item ]_vars

C17_Witness ==
    /\ prog = <<"send", "send", "await_tok", "await_other">>
    /\ kind = "AsyncStream"
    /\ overwritten = {1}
    /\ item = << >>
    /\ out = << Result("Ready(Some)", <<2>>, << >>),
                Result("Pending", << >>, << >>) >>

\* C18: as long as no call of poll_next or poll has panicked, fut is Some, so
\* the unwrap at the start of the next call succeeds: the futures 0.1 poll,
\* which moves the block out of fut, has moved it back whenever it returned.
C18_FutPresent ==
    (\A i \in 1..Len(out) : ~IsPanic(out[i])) => fut = "Some"

C18_Witness ==
    /\ kind = "AsyncTryStream"
    /\ Len(out) >= 3
    /\ \A i \in 1..Len(out) : ~IsPanic(out[i])
    /\ \E i \in 1..Len(out) : IsPoll01Result(out[i])
    /\ \E i \in 1..Len(out) : ~IsPoll01Result(out[i])
    /\ IsTerminal(out[Len(out)])
    /\ fut = "Some"

=============================================================================
